---- MODULE Spec2Model ----
(***************************************************************************)
(* Huffman coding engine of src/src/huffman_tree.rs: the tree builder      *)
(* (HuffmanTree::build_tree), the encoding table derivation                *)
(* (HuffmanTree::build_encoding_table) and the HuffmanCode codec and       *)
(* serializer (encode, decode, serialize, deserialize).                    *)
(*                                                                         *)
(* A char is a string of length one, a Vec<bool> a sequence of BOOLEAN, a  *)
(* String a sequence of chars, a HashMap a function on its key set, an     *)
(* Option a record tagged "None" or "Some".  The BinaryHeap is the set of  *)
(* the trees it holds (the trees pushed by build_tree have pairwise        *)
(* disjoint leaves, so no tree is held twice); pop returns any greatest    *)
(* element under Ord, which is all the library promises.                   *)
(***************************************************************************)
EXTENDS Integers, Sequences, FiniteSets, TLC

VARIABLES
    frequencies,      \* the HashMap<char, i32> build_tree is called with
    overflow_checks,  \* build profile: TRUE = i32 overflow panics, FALSE = wraps
    pc,               \* position of the program
    remaining,        \* keys the `for` loop of build_tree has not visited yet
    heap,             \* the BinaryHeap<Reverse<HuffmanTree>> of build_tree
    merges,           \* completed iterations of the `while` loop
    tree,             \* Option<HuffmanTree>: the tree build_tree returned
    panic_msg,        \* Option<&str>: message of the panic that ended the call
    encoding_table,   \* Option<HashMap<char, Vec<bool>>>: build_encoding_table's result
    first_table,      \* Option<...>: encoding table of the previous build of the same table
    code,             \* Option<HuffmanCode>
    text,             \* the &str handed to encode
    bits,             \* Option<Vec<bool>>: what encode returned
    decoded,          \* Option<String>: what decode returned
    bytes,            \* Option<Vec<u8>>: what serialize returned
    restored          \* Option<HuffmanCode>: what deserialize returned

vars == <<frequencies, overflow_checks, pc, remaining, heap, merges, tree,
          panic_msg, encoding_table, first_table, code, text, bits, decoded,
          bytes, restored>>

buildVars == <<remaining, heap, merges, tree, panic_msg>>
codecVars == <<code, text, bits, decoded, bytes, restored>>

----------------------------------------------------------------------------
(* Bounds of the model *)

NumSymbols == 4   \* distinct chars a frequency table is drawn over
MaxCount == 3     \* small counts run over 1..MaxCount
MaxLen == 3       \* longest text handed to encode

(* Program constants *)

I32Max == 2147483647
I32Min == -I32Max - 1

Chars == <<"a", "b", "c", "d", "e", "f">>
Symbols == {Chars[i] : i \in 1..NumSymbols}
CountValues == (1..MaxCount) \cup {I32Max}

None == [tag |-> "None"]
Some(x) == [tag |-> "Some", val |-> x]

EmptyMap == [k \in {} |-> 0]
Insert(map, k, v) == [x \in (DOMAIN map) \cup {k} |-> IF x = k THEN v ELSE map[x]]

Example1 == [c \in {"a", "b", "c", "d"} |->
               CASE c = "a" -> 4 [] c = "b" -> 2 [] c = "c" -> 1 [] c = "d" -> 5]
Example2 == [c \in {"x"} |-> 7]

FreqTables ==
    UNION {[S -> CountValues] : S \in SUBSET Symbols} \cup {Example1, Example2}

RECURSIVE SeqsUpTo(_, _)
SeqsUpTo(S, n) ==
    IF n = 0 THEN {<<>>}
    ELSE LET shorter == SeqsUpTo(S, n - 1)
         IN shorter \cup {Append(s, c) : s \in {t \in shorter : Len(t) = n - 1}, c \in S}

Texts == SeqsUpTo(Symbols, MaxLen) \cup {<<"x", "x", "x">>}

----------------------------------------------------------------------------
(* i32 arithmetic: `+` on i32 panics on overflow when overflow checks are  *)
(* on and wraps modulo 2^32 otherwise.  Written so that no intermediate    *)
(* value leaves the i32 range.                                             *)

AddOverflows(a, b) ==
    \/ a > 0 /\ b > 0 /\ a > I32Max - b
    \/ a < 0 /\ b < 0 /\ a < I32Min - b

WrappingAdd(a, b) ==
    IF a > 0 /\ b > 0 /\ a > I32Max - b
    THEN I32Min + (a - (I32Max - b) - 1)
    ELSE IF a < 0 /\ b < 0 /\ a < I32Min - b
    THEN I32Max + ((a - (I32Min - b)) + 1)
    ELSE a + b

----------------------------------------------------------------------------
(* enum Node, struct HuffmanTree *)

Leaf(value, count) == [kind |-> "Leaf", value |-> value, count |-> count]
Internal(left, right, weight) ==
    [kind |-> "Internal", left |-> left, right |-> right, weight |-> weight]

is_leaf(node) == node.kind = "Leaf"

node_weight(node) == IF node.kind = "Leaf" THEN node.count ELSE node.weight

new_leaf(value, count) == [root |-> Leaf(value, count)]

new_internal(left, right) ==
    [root |-> Internal(left, right, WrappingAdd(node_weight(left), node_weight(right)))]

weight(t) == node_weight(t.root)

(* impl Ord for HuffmanTree: by weight alone *)
cmp(a, b) ==
    IF weight(a) < weight(b) THEN "Less"
    ELSE IF weight(a) > weight(b) THEN "Greater" ELSE "Equal"

(* std::cmp::Reverse: the order of the wrapped values, reversed *)
reverse_cmp_unreversed(a, b) == cmp(a, b)

reverse_cmp(a, b) == cmp(b, a)

(* BinaryHeap::pop: a greatest element of the heap; which one among equal  *)
(* elements is not specified.                                              *)
PopCandidates(h) == {x \in h : \A y \in h : reverse_cmp(x, y) # "Less"}

LoopGuardOffByOne(h) == Cardinality(h) > 2

LoopGuard(h) == Cardinality(h) > 1

----------------------------------------------------------------------------
(* build_encoding_table / walk_through_tree *)

RECURSIVE walk_through_tree_swapped(_, _, _)
walk_through_tree_swapped(node, current_path, table) ==
    IF node.kind = "Leaf"
    THEN Insert(table, node.value, current_path)
    ELSE LET afterLeft ==
                 walk_through_tree_swapped(node.left, Append(current_path, TRUE), table)
         IN walk_through_tree_swapped(node.right, Append(current_path, FALSE), afterLeft)

RECURSIVE walk_through_tree_nopush(_, _, _)
walk_through_tree_nopush(node, current_path, table) ==
    IF node.kind = "Leaf"
    THEN Insert(table, node.value, current_path)
    ELSE LET afterLeft ==
                 walk_through_tree_nopush(node.left, Append(current_path, FALSE), table)
         IN walk_through_tree_nopush(node.right, current_path, afterLeft)

RECURSIVE walk_through_tree(_, _, _)
walk_through_tree(node, current_path, table) ==
    IF node.kind = "Leaf"
    THEN Insert(table, node.value, current_path)
    ELSE LET afterLeft ==
                 walk_through_tree(node.left, Append(current_path, FALSE), table)
         IN walk_through_tree(node.right, Append(current_path, TRUE), afterLeft)

build_encoding_table(t) == walk_through_tree(t.root, <<>>, EmptyMap)

----------------------------------------------------------------------------
(* struct HuffmanCode *)

HuffmanCode_new(table) == [encoding_table |-> table]

encode(self, data) == <<>>

decode(self, data) == <<>>

serialize(self) == <<>>

deserialize(data) == [encoding_table |-> EmptyMap]

----------------------------------------------------------------------------
(* The program: build_tree on a frequency table, build_encoding_table on   *)
(* its result, optionally a second build of the same table, then the       *)
(* HuffmanCode operations.                                                 *)

Init ==
    /\ frequencies \in FreqTables
    /\ overflow_checks \in BOOLEAN
    /\ pc = "build"
    /\ remaining = DOMAIN frequencies
    /\ heap = {}
    /\ merges = 0
    /\ tree = None
    /\ panic_msg = None
    /\ encoding_table = None
    /\ first_table = None
    /\ code = None
    /\ text = <<>>
    /\ bits = None
    /\ decoded = None
    /\ bytes = None
    /\ restored = None

(* One iteration of `for (&c, &count) in frequencies`: HashMap iteration   *)
(* order is arbitrary.                                                     *)
PushLeaf ==
    /\ pc = "build"
    /\ remaining # {}
    /\ \E c \in remaining :
         /\ heap' = heap \cup {new_leaf(c, frequencies[c])}
         /\ remaining' = remaining \ {c}
    /\ UNCHANGED <<frequencies, overflow_checks, pc, merges, tree, panic_msg,
                   encoding_table, first_table>>
    /\ UNCHANGED codecVars

(* One iteration of `while heap.len() > 1`: two pops, new_internal, push.  *)
MergeStep ==
    /\ pc = "build"
    /\ remaining = {}
    /\ LoopGuard(heap)
    /\ \E left \in PopCandidates(heap) :
         \E right \in PopCandidates(heap \ {left}) :
           IF overflow_checks /\ AddOverflows(weight(left), weight(right))
           THEN /\ pc' = "panicked"
                /\ panic_msg' = Some("attempt to add with overflow")
                /\ heap' = {}
                /\ UNCHANGED merges
           ELSE /\ heap' = (heap \ {left, right}) \cup {new_internal(left.root, right.root)}
                /\ merges' = merges + 1
                /\ UNCHANGED <<pc, panic_msg>>
    /\ UNCHANGED <<frequencies, overflow_checks, remaining, tree, encoding_table,
                   first_table>>
    /\ UNCHANGED codecVars

(* The final `heap.pop()` of build_tree *)
FinalPopDefaulting(h) ==
    IF h = {} THEN {[pc |-> "built", tree |-> Some(new_leaf("a", 0)), panic_msg |-> None]}
    ELSE {[pc |-> "built", tree |-> Some(t), panic_msg |-> None] : t \in PopCandidates(h)}

FinalPop(h) ==
    IF h = {} THEN {[pc |-> "panicked", tree |-> None,
                     panic_msg |-> Some("Heap should not be empty")]}
    ELSE {[pc |-> "built", tree |-> Some(t), panic_msg |-> None] : t \in PopCandidates(h)}

ReturnTree ==
    /\ pc = "build"
    /\ remaining = {}
    /\ ~LoopGuard(heap)
    /\ \E out \in FinalPop(heap) :
         /\ pc' = out.pc
         /\ tree' = out.tree
         /\ panic_msg' = out.panic_msg
    /\ heap' = {}
    /\ UNCHANGED <<frequencies, overflow_checks, remaining, merges, encoding_table,
                   first_table>>
    /\ UNCHANGED codecVars

DeriveTable ==
    /\ pc = "built"
    /\ encoding_table' = Some(build_encoding_table(tree.val))
    /\ pc' = "table_done"
    /\ UNCHANGED <<frequencies, overflow_checks, first_table>>
    /\ UNCHANGED buildVars
    /\ UNCHANGED codecVars

(* build_tree called again on the same frequency table *)
BuildAgain ==
    /\ pc = "table_done"
    /\ first_table = None
    /\ first_table' = encoding_table
    /\ pc' = "build"
    /\ remaining' = DOMAIN frequencies
    /\ heap' = {}
    /\ merges' = 0
    /\ tree' = None
    /\ encoding_table' = None
    /\ UNCHANGED <<frequencies, overflow_checks, panic_msg>>
    /\ UNCHANGED codecVars

NewCode ==
    /\ pc = "table_done"
    /\ code' = Some(HuffmanCode_new(encoding_table.val))
    /\ pc' = "coded"
    /\ UNCHANGED <<frequencies, overflow_checks, encoding_table, first_table,
                   text, bits, decoded, bytes, restored>>
    /\ UNCHANGED buildVars

Encode ==
    /\ pc = "coded"
    /\ \E data \in Texts :
         /\ text' = data
         /\ bits' = Some(encode(code.val, data))
    /\ pc' = "encoded"
    /\ UNCHANGED <<frequencies, overflow_checks, encoding_table, first_table,
                   code, decoded, bytes, restored>>
    /\ UNCHANGED buildVars

Decode ==
    /\ pc = "encoded"
    /\ decoded' = Some(decode(code.val, bits.val))
    /\ pc' = "decoded"
    /\ UNCHANGED <<frequencies, overflow_checks, encoding_table, first_table,
                   code, text, bits, bytes, restored>>
    /\ UNCHANGED buildVars

Serialize ==
    /\ pc = "coded"
    /\ bytes' = Some(serialize(code.val))
    /\ pc' = "serialized"
    /\ UNCHANGED <<frequencies, overflow_checks, encoding_table, first_table,
                   code, text, bits, decoded, restored>>
    /\ UNCHANGED buildVars

Deserialize ==
    /\ pc = "serialized"
    /\ restored' = Some(deserialize(bytes.val))
    /\ pc' = "deserialized"
    /\ UNCHANGED <<frequencies, overflow_checks, encoding_table, first_table,
                   code, text, bits, decoded, bytes>>
    /\ UNCHANGED buildVars

Next ==
    \/ PushLeaf
    \/ MergeStep
    \/ ReturnTree
    \/ DeriveTable

Spec == Init /\ [][Next]_vars

FullNext ==
    \/ PushLeaf
    \/ MergeStep
    \/ ReturnTree
    \/ DeriveTable
    \/ BuildAgain
    \/ NewCode
    \/ Encode
    \/ Decode
    \/ Serialize
    \/ Deserialize

FullSpec == Init /\ [][FullNext]_vars

----------------------------------------------------------------------------
(* Vocabulary of the properties *)

Err(e) == [tag |-> "Err", err |-> e]

NumKeys == Cardinality(DOMAIN frequencies)

Returned == tree.tag = "Some"

RECURSIVE LeafSeq(_)
LeafSeq(node) ==
    IF node.kind = "Leaf" THEN <<node>> ELSE LeafSeq(node.left) \o LeafSeq(node.right)

RECURSIVE InternalCount(_)
InternalCount(node) ==
    IF node.kind = "Leaf" THEN 0
    ELSE 1 + InternalCount(node.left) + InternalCount(node.right)

RECURSIVE FullBinary(_)
FullBinary(node) ==
    \/ node.kind = "Leaf"
    \/ /\ node.kind = "Internal"
       /\ FullBinary(node.left)
       /\ FullBinary(node.right)

(* weight = weight(left) + weight(right) over the integers, at every internal node *)
RECURSIVE Additive(_)
Additive(node) ==
    \/ node.kind = "Leaf"
    \/ /\ ~AddOverflows(node_weight(node.left), node_weight(node.right))
       /\ node.weight = node_weight(node.left) + node_weight(node.right)
       /\ Additive(node.left)
       /\ Additive(node.right)

RECURSIVE LeftLight(_)
LeftLight(node) ==
    \/ node.kind = "Leaf"
    \/ /\ node_weight(node.left) <= node_weight(node.right)
       /\ LeftLight(node.left)
       /\ LeftLight(node.right)

(* The sum of the counts over the integers, as carry * 2^31 + low *)
RECURSIVE WideSum(_, _)
WideSum(f, keys) ==
    IF keys = {} THEN [carry |-> 0, low |-> 0]
    ELSE LET k == CHOOSE x \in keys : TRUE
             rest == WideSum(f, keys \ {k})
         IN IF rest.low > I32Max - f[k]
            THEN [carry |-> rest.carry + 1, low |-> rest.low - (I32Max - f[k]) - 1]
            ELSE [carry |-> rest.carry, low |-> rest.low + f[k]]

(* The node reached from `node` by the directions of `path`: FALSE left, TRUE right *)
RECURSIVE Follow(_, _)
Follow(node, path) ==
    IF path = <<>> THEN Some(node)
    ELSE IF node.kind = "Leaf" THEN None
    ELSE Follow(IF Head(path) THEN node.right ELSE node.left, Tail(path))

IsPrefix(p, q) == Len(p) <= Len(q) /\ SubSeq(q, 1, Len(p)) = p

Example1Table ==
    [c \in {"a", "b", "c", "d"} |->
        CASE c = "d" -> <<FALSE>>
          [] c = "a" -> <<TRUE, TRUE>>
          [] c = "b" -> <<TRUE, FALSE, TRUE>>
          [] c = "c" -> <<TRUE, FALSE, FALSE>>]

----------------------------------------------------------------------------
(* C1: decoding what encode returned for a text drawn from the table's     *)
(* alphabet gives back exactly that text.                                  *)
C1_CodecRoundTrip ==
    (pc = "decoded" /\ \A i \in 1..Len(text) : text[i] \in DOMAIN frequencies)
        => decoded = Some(text)

(* C2: the returned tree's root weight is the sum of all input counts, and *)
(* every internal node's weight is the sum of its children's weights.      *)
C2_WeightInvariant ==
    Returned =>
        /\ WideSum(frequencies, DOMAIN frequencies) =
               [carry |-> 0, low |-> weight(tree.val)]
        /\ Additive(tree.val.root)

(* C3: in the derived encoding table no symbol's code is a prefix of       *)
(* another symbol's code (so no two symbols share a code).                 *)
C3_PrefixFree ==
    encoding_table.tag = "Some" =>
        \A s, t \in DOMAIN encoding_table.val :
            s # t => ~IsPrefix(encoding_table.val[s], encoding_table.val[t])

C3_Witness ==
    /\ encoding_table.tag = "Some"
    /\ Cardinality(DOMAIN encoding_table.val) >= 3
    /\ \E s, t \in DOMAIN encoding_table.val :
           Len(encoding_table.val[s]) < Len(encoding_table.val[t])

(* C4: the returned tree has each symbol of the table as a leaf exactly    *)
(* once, with its count, and no other leaf; a one-symbol table gives a     *)
(* single Leaf, any larger table a full binary tree of n leaves and n - 1  *)
(* internal nodes.                                                         *)
C4_TreeShape ==
    Returned =>
        LET root == tree.val.root
            leaves == LeafSeq(root)
        IN /\ Len(leaves) = NumKeys
           /\ {leaves[i].value : i \in 1..Len(leaves)} = DOMAIN frequencies
           /\ \A i \in 1..Len(leaves) : leaves[i].count = frequencies[leaves[i].value]
           /\ FullBinary(root)
           /\ InternalCount(root) = NumKeys - 1
           /\ NumKeys = 1 => root.kind = "Leaf"

C4_Witness ==
    /\ Returned
    /\ NumKeys >= 3
    /\ InternalCount(tree.val.root) = NumKeys - 1

(* C5: a second build of the same frequency table gives the same encoding  *)
(* table as the first.                                                     *)
C5_Determinism ==
    (first_table.tag = "Some" /\ encoding_table.tag = "Some")
        => encoding_table = first_table

(* C6 as stated: build_tree on an empty table returns to its caller with   *)
(* the error value EmptyAlphabet.                                          *)
C6_EmptyAlphabetError ==
    (DOMAIN frequencies = {} /\ pc # "build")
        => (pc = "built" /\ tree = Err("EmptyAlphabet"))

(* C6 amended: build_tree on an empty table panics with "Heap should not   *)
(* be empty"; it returns no tree, merges nothing and nothing is derived.   *)
C6_EmptyAlphabetPanics ==
    (DOMAIN frequencies = {} /\ pc # "build")
        => /\ pc = "panicked"
           /\ panic_msg = Some("Heap should not be empty")
           /\ tree = None
           /\ merges = 0
           /\ encoding_table = None

C6_Witness ==
    DOMAIN frequencies = {} /\ pc = "panicked"

(* C7: every symbol has the same code after deserialize(serialize(x)) as   *)
(* before.                                                                 *)
C7_SerializationRoundTrip ==
    pc = "deserialized" => restored.val.encoding_table = code.val.encoding_table

(* C8: encode of a text holding a symbol absent from the encoding table    *)
(* fails with UnknownSymbol of that symbol and returns no bit sequence.    *)
C8_UnknownSymbol ==
    (pc = "encoded" /\ \E i \in 1..Len(text) : text[i] \notin DOMAIN code.val.encoding_table)
        => \E i \in 1..Len(text) :
               /\ text[i] \notin DOMAIN code.val.encoding_table
               /\ bits = Err([UnknownSymbol |-> text[i]])

(* The table against the tree it was derived from *)
C9_TablePaths ==
    encoding_table.tag = "Some" =>
        LET root == tree.val.root
            leaves == LeafSeq(root)
            table == encoding_table.val
        IN /\ DOMAIN table = {leaves[i].value : i \in 1..Len(leaves)}
           /\ \A s \in DOMAIN table :
                  LET at == Follow(root, table[s])
                  IN at.tag = "Some" /\ at.val.kind = "Leaf" /\ at.val.value = s
           /\ root.kind = "Leaf" => table[root.value] = <<>>
           /\ frequencies = Example1 => table = Example1Table

(* C9: the encoding table's keys are exactly the leaf symbols, each code   *)
(* is the path of directions from the root to that symbol's leaf (FALSE    *)
(* left, TRUE right), a single-leaf tree gives the empty code, Example 1   *)
(* gives its documented table, and deriving the table leaves the tree as   *)
(* it was.                                                                 *)
C9_EncodingTable ==
    /\ []C9_TablePaths
    /\ [][(encoding_table.tag = "None" /\ encoding_table'.tag = "Some") => tree' = tree]_vars

C9_Witness ==
    /\ encoding_table.tag = "Some"
    /\ frequencies = Example1
    /\ encoding_table.val["b"] = <<TRUE, FALSE, TRUE>>

(* One iteration of the merge loop, as a step of the program *)
C10_MergeIteration ==
    (pc = "build" /\ merges' = merges + 1) =>
        \E new \in heap' \ heap :
            /\ new.root.kind = "Internal"
            /\ LET l == [root |-> new.root.left]
                   r == [root |-> new.root.right]
               IN /\ l \in heap /\ r \in heap /\ l # r
                  /\ heap' = (heap \ {l, r}) \cup {new}
                  /\ weight(l) <= weight(r)
                  /\ \A x \in heap \ {l, r} : weight(l) <= weight(x) /\ weight(r) <= weight(x)
            /\ Cardinality(heap') = Cardinality(heap) - 1

(* The step that leaves the merge loop and returns the root *)
C10_LoopExit ==
    (pc = "build" /\ pc' = "built") =>
        /\ merges = NumKeys - 1
        /\ heap = {tree'.val}

(* C10: each iteration of the merge loop removes two nodes no heavier than *)
(* any node left in the queue, makes the first-removed the left and the    *)
(* second-removed the right child of the new internal node, and shrinks    *)
(* the queue by one; the loop is left after NumKeys - 1 merges with one    *)
(* node in the queue, which is the root returned; in a returned tree the   *)
(* left child of every internal node is no heavier than the right child.   *)
C10_GreedyMerge ==
    /\ [][C10_MergeIteration]_vars
    /\ [][C10_LoopExit]_vars
    /\ [](Returned => LeftLight(tree.val.root))

C10_Witness ==
    /\ Returned
    /\ merges >= 2
    /\ NumKeys = merges + 1

====
